---- MODULE Spec2Model ----
(***************************************************************************)
(* The chunked upload orchestrator of file-insights-platform:              *)
(* UploadService (initiate, presign, mark_complete) over the DynamoDB      *)
(* record store and the S3 multipart client.                               *)
(*                                                                         *)
(* Every `await` of mark_complete is a scheduling point, so one call is    *)
(* four steps (read, first write, finalize, second write) that interleave  *)
(* with the steps of the other calls in flight.  initiate and presign      *)
(* touch shared state at one point only and are one step each.             *)
(*                                                                         *)
(* Conversions: sizes and byte offsets are counted in blocks of 1 GiB      *)
(* (TLC integers are 32 bit and the cap is 5 GiB); a progress value is     *)
(* held in hundredths of a percent (10000 is 100.0); an Optional is <<>>   *)
(* for None and <<v>> for a value; the timestamps are left out except      *)
(* completed_at, which is None or "set".                                   *)
(***************************************************************************)
EXTENDS Integers, Sequences, FiniteSets, TLC

VARIABLES
    db,       \* the uploads table: upload id -> stored Upload item
    s3,       \* the multipart sessions opened in the bucket: upload id -> session
    calls,    \* the mark_complete calls in flight, per request slot
    returned, \* what the step just taken returned to its caller, None if nothing
    s3_call,  \* the call the step just taken made on the S3 client, None if none
    requests_cache  \* RateLimitGuard._requests_cache of the AUTHENTICATED_USER chain

vars == <<db, s3, calls, returned, s3_call, requests_cache>>

\* ---------------------------------------------------------------- values
max_file_size == 5
\* RateLimitGuard(100) of AUTHENTICATED_USER
requests_per_minute == 100

\* ---------------------------------------------------------------- bounds
\* the mark_complete calls that may be in flight together
MaxCalls == 2
\* the longest chunk plan of the sequential model
MaxChunks == 2

\* the largest chunk_size of the chunk-plan model
MaxChunkSize == 3

Procs == 1..MaxCalls
UploadIds == {1}
Users == {"alice", "bob"}
ChunkSizes == {2}
\* one file size per plan length, and one over the cap
FileSizes == {2 * n - 1 : n \in 1..MaxChunks} \cup {max_file_size + 1}
ETags == {"", "a"}
\* every chunk number of a plan, one below (0) and one above
ChunkNumbers == 0..(MaxChunks + 1)
\* UploadChunkRequest validates chunk_number >= 1 before presign is reached
PresignChunkNumbers == {n \in ChunkNumbers : n >= 1}
\* the inputs of the concurrent models: plans of one and two chunks
ConcFileSizes == {1, 3}
ConcChunkNumbers == 0..3
\* the inputs of the chunk-plan model: every size up to the cap against every
\* chunk size (smaller, equal, larger, dividing and not), planned for two uploads
PlanIds == {1, 2}
PlanFileSizes == 1..max_file_size
PlanChunkSizes == 1..MaxChunkSize
\* the inputs of the two-upload model
TwoIds == {1, 2}
TwoFileSizes == {1, 3}
TwoChunkNumbers == 1..2
\* request.client of the guarded requests: one address, or no address at all
Clients == {<<>>, <<"10.0.0.1">>}
\* a plan with one chunk per call slot
OnceFileSizes == {1, 2 * MaxCalls - 1}

None == <<>>
Some(v) == <<v>>

\* mutant: the first argument whatever the second
Min_first(a, b) == a

Min(a, b) == IF a <= b THEN a ELSE b

UploadChunk(chunk_number, start_byte, end_byte) ==
    [chunk_number |-> chunk_number, start_byte |-> start_byte,
     end_byte |-> end_byte, is_uploaded |-> FALSE, etag |-> None]

Upload(id, user_id, filename, file_size, content_type, upload_id, status, chunks, s3_key) ==
    [id |-> id, user_id |-> user_id, filename |-> filename, file_size |-> file_size,
     content_type |-> content_type, upload_id |-> upload_id, s3_key |-> s3_key,
     status |-> status, chunks |-> chunks, upload_progress |-> 0,
     completed_at |-> None]

UploadResponse(upload_id, status, progress, message, upload_url, next_chunk) ==
    [upload_id |-> upload_id, status |-> status, progress |-> progress,
     message |-> message, upload_url |-> upload_url, next_chunk |-> next_chunk]

\* ---------------------------------------------------------------- helpers
\* mutant: floor instead of ceiling
ceil_div_floor(size, chunk) == size \div chunk

\* math.ceil(size / chunk) on positive integers
ceil_div(size, chunk) == (size + chunk - 1) \div chunk

make_chunks(size, chunk) ==
    [i \in 1..ceil_div(size, chunk) |->
        UploadChunk(i, (i - 1) * chunk, Min(size - 1, i * chunk - 1))]

\* mutant: the first chunk of the plan, uploaded or not
next_chunk_first(chunks) == Some(chunks[1].chunk_number)

\* mutant: never a next chunk
next_chunk_none(chunks) == None

\* the first chunk in list order that is not uploaded, else None
next_chunk(chunks) ==
    LET open == {i \in DOMAIN chunks : ~chunks[i].is_uploaded}
    IN IF open = {} THEN None
       ELSE Some(chunks[CHOOSE i \in open : \A j \in open : i <= j].chunk_number)

\* Python's list[i] on a list of n items: the 1-based position it denotes,
\* counting from the end for a negative i; 0 when it raises IndexError
list_index(n, i) ==
    IF 0 <= i /\ i < n THEN i + 1
    ELSE IF -n <= i /\ i < 0 THEN n + i + 1
    ELSE 0

\* mutant: counts every chunk
uploaded_count_total(chunks) == Len(chunks)

\* mutant: counts the chunks still open
uploaded_count_open(chunks) == Cardinality({i \in DOMAIN chunks : ~chunks[i].is_uploaded})

uploaded_count(chunks) == Cardinality({i \in DOMAIN chunks : chunks[i].is_uploaded})

\* round(num / den, 2) in hundredths, ties to even
round2(num, den) ==
    LET q == (num * 100) \div den
        r == (num * 100) % den
    IN IF 2 * r > den \/ (2 * r = den /\ q % 2 = 1) THEN q + 1 ELSE q

\* mutant: the factor of 100 forgotten
progress_of_fraction(uploaded, total) == round2(uploaded, total)

progress_of(uploaded, total) == round2(uploaded * 100, total)

\* a Python truth test of an Optional[str]
truthy(etag) == etag # None /\ etag[1] # ""

\* ---------------------------------------------------------------- adapters
\* DynamoDBAdapter.get_upload: the item, or None when there is none or the
\* read raised (ok = FALSE)
get_upload(table, upload_id, ok) ==
    IF ok /\ upload_id \in DOMAIN table THEN Some(table[upload_id]) ELSE None

\* mutant: the merged item written under every key of the table
update_upload_everywhere(table, upload_id, data, ok) ==
    IF ~ok \/ upload_id \notin DOMAIN table THEN table
    ELSE [j \in DOMAIN table |->
            [f \in DOMAIN table[upload_id] |->
                IF f \in DOMAIN data THEN data[f] ELSE table[upload_id][f]]]

\* mutant: the item is never written
put_upload_dropped(table, upload, ok) == table

\* DynamoDBAdapter.put_upload: the table after a full overwrite of the item;
\* unchanged when put_item raised (ok = FALSE)
put_upload(table, upload, ok) ==
    IF ok
    THEN [j \in DOMAIN table \cup {upload.id} |->
            IF j = upload.id THEN upload ELSE table[j]]
    ELSE table

\* DynamoDBAdapter.update_upload: re-reads the item, sets every attribute of
\* data on it and puts it back; no write when the item is missing or a store
\* call raised (ok = FALSE)
update_upload(table, upload_id, data, ok) ==
    LET cur == get_upload(table, upload_id, ok)
    IN IF cur = None THEN table
       ELSE put_upload(table,
                [f \in DOMAIN cur[1] |-> IF f \in DOMAIN data THEN data[f] ELSE cur[1][f]],
                ok)

\* mutant: an UploadId answered although the session could not be opened
s3_initiate_always(upload_id, ok) == Some(<<"mpu", upload_id>>)

\* S3Adapter.initiate: the UploadId of the session opened, None on error
s3_initiate(upload_id, ok) == IF ok THEN Some(<<"mpu", upload_id>>) ELSE None

\* the ETag S3 answers an UploadPart with
part_etag(part) == "a"

\* mutant: every URL signed for part 1
s3_presign_first_part(key, upload_id, part, ok) ==
    IF ok THEN Some(<<key, upload_id, 1>>) ELSE None

\* S3Adapter.presign: the URL signed for one part of one session, None on error
s3_presign(key, upload_id, part, ok) ==
    IF ok THEN Some(<<key, upload_id, part>>) ELSE None

\* ---------------------------------------------------------------- service
s3_key_of(user_id, upload_id, filename) == <<"uploads", user_id, upload_id, filename>>

\* uuid4 and S3's UploadId are fresh: an id no item and no session carries
fresh_ids(ids) == {i \in ids : i \notin DOMAIN db /\ i \notin DOMAIN s3}
new_uuid(ids) == CHOOSE i \in fresh_ids(ids) : \A j \in fresh_ids(ids) : i <= j

\* mutant: the owner comparison inverted
not_found_other_owner(upload, user_id) == upload = None \/ upload[1].user_id = user_id

\* mutant: the owner is not compared
not_found_any_owner(upload, user_id) == upload = None

\* `not upload or upload.user_id != user_id`
not_found(upload, user_id) == upload = None \/ upload[1].user_id # user_id

\* mutant: no size cap
too_large_never(file_size) == FALSE

\* `req.file_size > self.max_file_size`
too_large(file_size) == file_size > max_file_size

presign_not_found(upload_id) ==
    UploadResponse(upload_id, "failed", 0, <<"Upload not found">>, None, None)

mark_complete_not_found(upload_id) ==
    UploadResponse(upload_id, "failed", 0, <<"Upload not found">>, None, None)

\* mutant: the chunk's byte range cleared along with the flag set
set_chunk_restamping(upload, k, etag) ==
    LET chunks == [upload.chunks EXCEPT ![k].is_uploaded = TRUE, ![k].etag = Some(etag),
                                        ![k].start_byte = 0, ![k].end_byte = 0]
    IN [upload EXCEPT !.chunks = chunks,
                      !.upload_progress = progress_of(uploaded_count(chunks), Len(chunks))]

\* mutant: the progress advanced by one chunk per call instead of recounted
set_chunk_adding(upload, k, etag) ==
    LET chunks == [upload.chunks EXCEPT ![k].is_uploaded = TRUE, ![k].etag = Some(etag)]
    IN [upload EXCEPT !.chunks = chunks,
                      !.upload_progress =
                          progress_of(uploaded_count(upload.chunks) + 1, Len(chunks))]

\* mark_complete, the in-memory change: the chunk flagged with its etag and
\* the progress recomputed from the flags (k is the chunk's position)
set_chunk(upload, k, etag) ==
    LET chunks == [upload.chunks EXCEPT ![k].is_uploaded = TRUE, ![k].etag = Some(etag)]
    IN [upload EXCEPT !.chunks = chunks,
                      !.upload_progress = progress_of(uploaded_count(chunks), Len(chunks))]

\* mutant: finalize after every chunk
all_uploaded_always(upload) == TRUE

\* mutant: finalize as soon as any chunk is uploaded
all_uploaded_some(upload) == uploaded_count(upload.chunks) >= 1

\* whether mark_complete goes on to finalize
all_uploaded(upload) == uploaded_count(upload.chunks) = Len(upload.chunks)

\* the parts handed to complete_multipart_upload: list order, falsy etags dropped
parts_of(chunks) ==
    LET kept == SelectSeq(chunks, LAMBDA c : truthy(c.etag))
    IN [i \in DOMAIN kept |-> [PartNumber |-> kept[i].chunk_number, ETag |-> kept[i].etag[1]]]

\* mutant: completed without its timestamp
finalized_no_timestamp(upload, ok) ==
    IF ok THEN [upload EXCEPT !.status = "completed"]
    ELSE [upload EXCEPT !.status = "failed"]

\* mutant: the failure path resets the progress
finalized_progress_reset(upload, ok) ==
    IF ok THEN [upload EXCEPT !.status = "completed", !.completed_at = Some("set")]
    ELSE [upload EXCEPT !.status = "failed", !.upload_progress = 0]

\* the record as mark_complete holds it once s3.complete has answered
finalized(upload, ok) ==
    IF ok THEN [upload EXCEPT !.status = "completed", !.completed_at = Some("set")]
    ELSE [upload EXCEPT !.status = "failed"]

\* ---------------------------------------------------------------- requests
NoReq == [upload_id |-> 0, chunk_number |-> 0, etag |-> "", file_size |-> 0, chunk_size |-> 0]

Idle == [pc |-> "idle", req |-> NoReq, user_id |-> "", upload |-> None]

\* a slot whose call has returned
Done == [Idle EXCEPT !.pc = "done"]

InFlight == {"update", "finalize", "update_final"}

NoneInFlight == \A p \in Procs : calls[p].pc \notin InFlight

\* a response leaves the service
Returns(op, req, user_id, wrote, resp) ==
    returned' = Some([op |-> op, req |-> req, user_id |-> user_id, wrote |-> wrote,
                      raised |-> FALSE, resp |-> Some(resp)])

\* an exception leaves the service: the route answers through the global handler
Raises(op, req, user_id) ==
    returned' = Some([op |-> op, req |-> req, user_id |-> user_id, wrote |-> FALSE,
                      raised |-> TRUE, resp |-> None])

Init ==
    /\ db = <<>>
    /\ s3 = <<>>
    /\ calls = [p \in Procs |-> Idle]
    /\ returned = None
    /\ s3_call = None
    /\ requests_cache = <<>>

initiate(ids, file_size, chunk_size, filename, content_type, user_id, s3_ok, put_ok) ==
    LET req == [NoReq EXCEPT !.file_size = file_size, !.chunk_size = chunk_size]
    IN
    /\ UNCHANGED <<calls, requests_cache>>
    /\ IF too_large(file_size)
       THEN /\ Returns("initiate", req, user_id, FALSE,
                    UploadResponse(0, "failed", 0, <<"File too large">>, None, None))
            /\ s3_call' = None
            /\ UNCHANGED <<db, s3>>
       ELSE /\ fresh_ids(ids) # {}
            /\ LET id == new_uuid(ids)
                   s3_key == s3_key_of(user_id, id, filename)
                   upload_id == s3_initiate(id, s3_ok)
                   upload == Upload(id, user_id, filename, file_size, content_type,
                                    upload_id[1], "uploading",
                                    make_chunks(file_size, chunk_size), s3_key)
               IN /\ s3_call' = Some([op |-> "create_multipart_upload", key |-> s3_key,
                                      upload_id |-> id, parts |-> <<>>, ok |-> s3_ok])
                  /\ IF upload_id = None
                     THEN /\ Returns("initiate", req, user_id, FALSE,
                                  UploadResponse(0, "failed", 0, <<"S3 error">>, None, None))
                          /\ UNCHANGED <<db, s3>>
                     ELSE /\ s3' = [j \in DOMAIN s3 \cup {id} |->
                                       IF j = id
                                       THEN [key |-> s3_key, content_type |-> content_type,
                                             parts |-> {}]
                                       ELSE s3[j]]
                          /\ db' = put_upload(db, upload, put_ok)
                          /\ Returns("initiate", req, user_id, put_ok,
                                  UploadResponse(id, upload.status, 0,
                                                 <<"Upload initiated">>, None, Some(1)))

\* presign: the read, the S3 call and the response
presign_response(upload_id, chunk_number, user_id, get_ok, s3_ok) ==
    LET req == [NoReq EXCEPT !.upload_id = upload_id, !.chunk_number = chunk_number]
        upload == get_upload(db, upload_id, get_ok)
    IN
    /\ IF not_found(upload, user_id)
       THEN /\ Returns("presign", req, user_id, FALSE, presign_not_found(upload_id))
            /\ s3_call' = None
       ELSE LET u == upload[1]
                k == list_index(Len(u.chunks), chunk_number - 1)
            IN IF k = 0
               THEN /\ Raises("presign", req, user_id)
                    /\ s3_call' = None
               ELSE IF u.chunks[k].is_uploaded
               THEN /\ Returns("presign", req, user_id, FALSE,
                            UploadResponse(upload_id, u.status, u.upload_progress,
                                           <<"Chunk already uploaded">>, None,
                                           next_chunk(u.chunks)))
                    /\ s3_call' = None
               ELSE /\ Returns("presign", req, user_id, FALSE,
                            UploadResponse(upload_id, u.status, u.upload_progress,
                                           <<"URL generated">>,
                                           s3_presign(u.s3_key, u.upload_id, chunk_number, s3_ok),
                                           Some(chunk_number)))
                    /\ s3_call' = Some([op |-> "generate_presigned_url", key |-> u.s3_key,
                                        upload_id |-> u.upload_id,
                                        parts |-> <<chunk_number>>, ok |-> s3_ok])

\* mutant: presign stamps the item it read back into the table as failed
presign_writing(upload_id, chunk_number, user_id, get_ok, s3_ok) ==
    /\ presign_response(upload_id, chunk_number, user_id, get_ok, s3_ok)
    /\ db' = update_upload(db, upload_id, [status |-> "failed"], TRUE)
    /\ UNCHANGED <<s3, calls, requests_cache>>

\* presign writes nothing
presign(upload_id, chunk_number, user_id, get_ok, s3_ok) ==
    /\ presign_response(upload_id, chunk_number, user_id, get_ok, s3_ok)
    /\ UNCHANGED <<db, s3, calls, requests_cache>>

\* mark_complete up to its first write: the read, the checks, the local change
mark_complete(p, upload_id, chunk_number, etag, user_id, get_ok) ==
    LET req == [NoReq EXCEPT !.upload_id = upload_id, !.chunk_number = chunk_number,
                             !.etag = etag]
        upload == get_upload(db, upload_id, get_ok)
    IN
    /\ calls[p].pc \notin InFlight
    /\ UNCHANGED <<db, s3, requests_cache>>
    /\ s3_call' = None
    /\ IF not_found(upload, user_id)
       THEN /\ Returns("mark_complete", req, user_id, FALSE, mark_complete_not_found(upload_id))
            /\ UNCHANGED calls
       ELSE LET k == list_index(Len(upload[1].chunks), chunk_number - 1)
            IN IF k = 0
               THEN /\ Raises("mark_complete", req, user_id)
                    /\ UNCHANGED calls
               ELSE /\ calls' = [calls EXCEPT ![p] =
                            [pc |-> "update", req |-> req, user_id |-> user_id,
                             upload |-> Some(set_chunk(upload[1], k, etag))]]
                    /\ returned' = None

\* the first update_upload, and the response when chunks are still open
mark_complete_update(p, ok, rest) ==
    LET c == calls[p]
        upload == c.upload[1]
        wrote == ok /\ c.req.upload_id \in DOMAIN db
    IN
    /\ c.pc = "update"
    /\ db' = update_upload(db, c.req.upload_id, upload, ok)
    /\ UNCHANGED <<s3, requests_cache>>
    /\ s3_call' = None
    /\ IF all_uploaded(upload)
       THEN /\ calls' = [calls EXCEPT ![p].pc = "finalize"]
            /\ returned' = None
       ELSE /\ calls' = [calls EXCEPT ![p] = rest]
            /\ Returns("mark_complete", c.req, c.user_id, wrote,
                    UploadResponse(c.req.upload_id, upload.status, upload.upload_progress,
                                   <<"Chunk", c.req.chunk_number, "saved">>, None,
                                   next_chunk(upload.chunks)))

\* s3.complete and the status it decides
mark_complete_finalize(p, ok) ==
    LET c == calls[p]
    IN
    /\ c.pc = "finalize"
    /\ UNCHANGED <<db, s3, requests_cache>>
    /\ returned' = None
    /\ s3_call' = Some([op |-> "complete_multipart_upload", key |-> c.upload[1].s3_key,
                        upload_id |-> c.upload[1].upload_id,
                        parts |-> parts_of(c.upload[1].chunks), ok |-> ok])
    /\ calls' = [calls EXCEPT ![p].pc = "update_final",
                                ![p].upload = Some(finalized(c.upload[1], ok))]

\* the second update_upload and the final response
mark_complete_update_final(p, ok, rest) ==
    LET c == calls[p]
        upload == c.upload[1]
        wrote == ok /\ c.req.upload_id \in DOMAIN db
    IN
    /\ c.pc = "update_final"
    /\ db' = update_upload(db, c.req.upload_id, upload, ok)
    /\ UNCHANGED <<s3, requests_cache>>
    /\ s3_call' = None
    /\ calls' = [calls EXCEPT ![p] = rest]
    /\ IF upload.status = "completed"
       THEN Returns("mark_complete", c.req, c.user_id, wrote,
                UploadResponse(c.req.upload_id, upload.status, 10000,
                               <<"Upload completed">>, None, None))
       ELSE Returns("mark_complete", c.req, c.user_id, wrote,
                UploadResponse(c.req.upload_id, upload.status, upload.upload_progress,
                               <<"S3 finalize failed">>, None, None))

\* the client sends one part of the file to the URL presign signed for it; S3
\* keeps the part in the session
upload_part(upload_id, part) ==
    /\ upload_id \in DOMAIN db /\ upload_id \in DOMAIN s3
    /\ part \in 1..Len(db[upload_id].chunks)
    /\ part \notin s3[upload_id].parts
    /\ s3' = [s3 EXCEPT ![upload_id].parts = @ \cup {part}]
    /\ returned' = None
    /\ s3_call' = None
    /\ UNCHANGED <<db, calls, requests_cache>>

\* ---------------------------------------------------------------- guards
\* mutant: the rate limit consulted before the authentication
AUTHENTICATED_USER_swapped == <<"RateLimitGuard", "AuthGuard">>

\* GuardCombinations.AUTHENTICATED_USER = [AuthGuard(), RateLimitGuard(100)]
AUTHENTICATED_USER == <<"AuthGuard", "RateLimitGuard">>

\* RateLimitGuard's key for a request: the client's host, "unknown" without one
client_ip(client) == IF client = None THEN "unknown" ELSE client[1]

\* self._requests_cache.get(client_ip, 0)
cache_get(cache, key) == IF key \in DOMAIN cache THEN cache[key] ELSE 0

\* mutant: one request more than the limit admitted
over_limit_strict(current_count, limit) == current_count > limit

\* `current_count >= self.requests_per_minute`
over_limit(current_count, limit) == current_count >= limit

\* mutant: a rejection clears the client's count
RateLimitGuard_resetting(request, cache, limit) ==
    LET ip == client_ip(request.client)
        current_count == cache_get(cache, ip)
    IN [ok |-> ~over_limit(current_count, limit),
        cache |-> [k \in DOMAIN cache \cup {ip} |->
                     IF k # ip THEN cache[k]
                     ELSE IF over_limit(current_count, limit) THEN 0
                     ELSE current_count + 1]]

\* RateLimitGuard.can_activate: the verdict and the cache it leaves
RateLimitGuard(request, cache, limit) ==
    LET ip == client_ip(request.client)
        current_count == cache_get(cache, ip)
    IN IF over_limit(current_count, limit)
       THEN [ok |-> FALSE, cache |-> cache]
       ELSE [ok |-> TRUE,
             cache |-> [k \in DOMAIN cache \cup {ip} |->
                          IF k = ip THEN current_count + 1 ELSE cache[k]]]

\* AuthGuard.can_activate: a Bearer authorization header is all it asks for
AuthGuard(request, cache) == [ok |-> request.bearer, cache |-> cache]

can_activate(guard, request, cache) ==
    IF guard = "RateLimitGuard" THEN RateLimitGuard(request, cache, requests_per_minute)
    ELSE AuthGuard(request, cache)

\* handle_failure: the HTTPException a denying guard raises
handle_failure(guard) ==
    IF guard = "RateLimitGuard"
    THEN [status_code |-> 429, detail |-> <<"Rate limit exceeded">>]
    ELSE [status_code |-> 403, detail |-> <<"Access denied by", guard>>]

\* the loop of the guards wrapper from position i on: the guard that denied
\* (None when all admitted) and the cache left behind
RECURSIVE run_guards(_, _, _, _)
run_guards(guard_list, i, request, cache) ==
    IF i > Len(guard_list) THEN [denied_by |-> None, cache |-> cache]
    ELSE LET a == can_activate(guard_list[i], request, cache)
         IN IF ~a.ok THEN [denied_by |-> Some(guard_list[i]), cache |-> a.cache]
            ELSE run_guards(guard_list, i + 1, request, a.cache)

\* one request through @authenticated_user: the guards, then the handler
guards(client, bearer) ==
    LET request == [client |-> client, bearer |-> bearer]
        out == run_guards(AUTHENTICATED_USER, 1, request, requests_cache)
        error == IF out.denied_by = None THEN [status_code |-> 200, detail |-> <<"OK">>]
                 ELSE handle_failure(out.denied_by[1])
    IN
    /\ requests_cache' = out.cache
    /\ returned' = Some([op |-> "guards", client |-> client, bearer |-> bearer,
                         denied_by |-> out.denied_by, status_code |-> error.status_code,
                         detail |-> error.detail, handled |-> out.denied_by = None])
    /\ s3_call' = None
    /\ UNCHANGED <<db, s3, calls>>

\* the calls that answer within one step
Atomic ==
    \/ \E file_size \in FileSizes, chunk_size \in ChunkSizes, user_id \in Users,
          s3_ok \in BOOLEAN, put_ok \in BOOLEAN :
            initiate(UploadIds, file_size, chunk_size, "a.mp4", "video/mp4", user_id, s3_ok, put_ok)
    \/ \E upload_id \in UploadIds, chunk_number \in PresignChunkNumbers, user_id \in Users,
          get_ok \in BOOLEAN, s3_ok \in BOOLEAN :
            presign(upload_id, chunk_number, user_id, get_ok, s3_ok)

\* requests served one after another, every adapter call free to raise
Next ==
    \/ NoneInFlight /\ Atomic
    \/ /\ NoneInFlight
       /\ \E upload_id \in UploadIds, chunk_number \in ChunkNumbers, etag \in ETags,
             user_id \in Users, get_ok \in BOOLEAN :
            mark_complete(1, upload_id, chunk_number, etag, user_id, get_ok)
    \/ \E ok \in BOOLEAN : mark_complete_update(1, ok, Idle)
    \/ \E ok \in BOOLEAN : mark_complete_finalize(1, ok)
    \/ \E ok \in BOOLEAN : mark_complete_update_final(1, ok, Idle)
    \/ NoneInFlight /\ \E upload_id \in UploadIds, part \in 1..MaxChunks :
            upload_part(upload_id, part)
Spec == Init /\ [][Next]_vars

\* mark_complete calls of one upload served concurrently, each slot taking
\* call after call
NextConc ==
    \/ \E file_size \in ConcFileSizes, chunk_size \in ChunkSizes, s3_ok \in BOOLEAN, put_ok \in BOOLEAN :
            initiate(UploadIds, file_size, chunk_size, "a.mp4", "video/mp4", "alice", s3_ok, put_ok)
    \/ \E p \in Procs, upload_id \in UploadIds, chunk_number \in ConcChunkNumbers :
            mark_complete(p, upload_id, chunk_number, "a", "alice", TRUE)
    \/ \E p \in Procs, ok \in BOOLEAN : mark_complete_update(p, ok, Idle)
    \/ \E p \in Procs, ok \in BOOLEAN : mark_complete_finalize(p, ok)
    \/ \E p \in Procs, ok \in BOOLEAN : mark_complete_update_final(p, ok, Idle)
SpecConc == Init /\ [][NextConc]_vars

\* one mark_complete per chunk, all in flight together: slot p serves the call
\* for chunk p, once, and no store or S3 call raises
NextOnce ==
    \/ \E file_size \in OnceFileSizes, chunk_size \in ChunkSizes, user_id \in Users :
            initiate(UploadIds, file_size, chunk_size, "a.mp4", "video/mp4", user_id, TRUE, TRUE)
    \/ \E p \in Procs, upload_id \in UploadIds, etag \in ETags, user_id \in Users :
            calls[p].pc = "idle" /\ mark_complete(p, upload_id, p, etag, user_id, TRUE)
    \/ \E p \in Procs : mark_complete_update(p, TRUE, Done)
    \/ \E p \in Procs : mark_complete_finalize(p, TRUE)
    \/ \E p \in Procs : mark_complete_update_final(p, TRUE, Done)
SpecOnce == Init /\ [][NextOnce]_vars

\* initiate after initiate over every file size and chunk size: the chunk plans
NextPlan ==
    \E file_size \in PlanFileSizes, chunk_size \in PlanChunkSizes, s3_ok \in BOOLEAN,
       put_ok \in BOOLEAN :
        initiate(PlanIds, file_size, chunk_size, "a.mp4", "video/mp4", "alice", s3_ok, put_ok)
SpecPlan == Init /\ [][NextPlan]_vars

\* the upload a call slot of the two-upload model addresses
upload_of(p) == ((p - 1) % 2) + 1

\* two uploads, their calls interleaved: slot p completes chunks of upload
\* upload_of(p) while the other slots work on theirs, and presign reads either
NextTwo ==
    \/ \E file_size \in TwoFileSizes, chunk_size \in ChunkSizes :
            initiate(TwoIds, file_size, chunk_size, "a.mp4", "video/mp4", "alice", TRUE, TRUE)
    \/ \E upload_id \in TwoIds, chunk_number \in TwoChunkNumbers :
            presign(upload_id, chunk_number, "alice", TRUE, TRUE)
    \/ \E p \in Procs, chunk_number \in TwoChunkNumbers :
            mark_complete(p, upload_of(p), chunk_number, "a", "alice", TRUE)
    \/ \E p \in Procs : mark_complete_update(p, TRUE, Idle)
    \/ \E p \in Procs, ok \in BOOLEAN : mark_complete_finalize(p, ok)
    \/ \E p \in Procs : mark_complete_update_final(p, TRUE, Idle)
SpecTwo == Init /\ [][NextTwo]_vars

\* requests through the AUTHENTICATED_USER guards, with and without a Bearer
\* header, from a client with an address and from one without
NextGuard == \E client \in Clients, bearer \in BOOLEAN : guards(client, bearer)
SpecGuard == Init /\ [][NextGuard]_vars

\* ================================================================ claims
Flags(upload) == [k \in DOMAIN upload.chunks |-> upload.chunks[k].is_uploaded]
AllFlags(upload) == \A k \in DOMAIN upload.chunks : upload.chunks[k].is_uploaded

\* C1: once one fault-free mark_complete per chunk of an N-chunk upload (N >= 2,
\* the calls in flight together) has returned, the stored item has every chunk
\* uploaded and progress 100.0
C1_NoLostUpdate ==
    \A id \in DOMAIN db :
        (/\ \A p \in Procs : calls[p].pc = "done"
         /\ Len(db[id].chunks) = MaxCalls)
        => AllFlags(db[id]) /\ db[id].upload_progress = 10000

\* C2 as stated: a stored item is completed exactly when all its chunks are uploaded
C2_CompletedIffAllUploaded ==
    \A id \in DOMAIN db : db[id].status = "completed" <=> AllFlags(db[id])

\* C2 amended: a stored item that is completed has all its chunks uploaded
C2_CompletedImpliesAllUploaded ==
    \A id \in DOMAIN db : db[id].status = "completed" => AllFlags(db[id])

C2_Witness ==
    \E id \in DOMAIN db :
        db[id].status = "completed" /\ Len(db[id].chunks) = 2 /\ AllFlags(db[id])

\* C3: once the stored status is completed, no step moves it to uploading or failed
C3_CompletedIsTerminal ==
    [][\A id \in DOMAIN db :
          db[id].status = "completed" => db'[id].status \notin {"uploading", "failed"}]_vars

\* C4: once the stored status is failed, no step moves it to uploading or completed
C4_FailedIsTerminal ==
    [][\A id \in DOMAIN db :
          db[id].status = "failed" => db'[id].status \notin {"uploading", "completed"}]_vars

\* C5 as stated: a stored item has progress 100.0 exactly when it is completed
C5_FullProgressIffCompleted ==
    \A id \in DOMAIN db : db[id].upload_progress = 10000 <=> db[id].status = "completed"

\* C5 amended: a stored item that is completed has progress 100.0
C5_CompletedImpliesFullProgress ==
    \A id \in DOMAIN db : db[id].status = "completed" => db[id].upload_progress = 10000

C5_Witness ==
    \E id \in DOMAIN db :
        db[id].status = "completed" /\ db[id].upload_progress = 10000
        /\ db[id].completed_at # None

\* C6: a chunk the stored item shows uploaded is shown uploaded in every later
\* stored state, whatever mark_complete calls run concurrently
C6_UploadedStaysUploaded ==
    [][\A id \in DOMAIN db : \A k \in DOMAIN db[id].chunks :
          db[id].chunks[k].is_uploaded => db'[id].chunks[k].is_uploaded]_vars

\* C7: with the calls served one after another, the stored progress never
\* decreases, and a mark_complete whose write went through returns the progress
\* it stored; so each such call returns at least what the call before it returned
C7_ProgressNonDecreasing ==
    [][/\ \A id \in DOMAIN db : db'[id].upload_progress >= db[id].upload_progress
       /\ (returned' # None /\ returned'[1].op = "mark_complete" /\ returned'[1].wrote)
          => LET r == returned'[1]
             IN /\ r.resp[1].progress = db'[r.req.upload_id].upload_progress
                /\ r.resp[1].progress >= db[r.req.upload_id].upload_progress]_vars

C7_Witness ==
    /\ returned # None /\ returned[1].op = "mark_complete" /\ returned[1].wrote
    /\ returned[1].resp[1].progress = 5000
    /\ db[returned[1].req.upload_id].upload_progress = 5000

\* C8: a mark_complete for a chunk the stored item already shows uploaded with
\* the same etag (the state one such call leaves) changes no is_uploaded flag
\* and not the progress: the chunk is not counted twice
C8_IdempotentCompletion ==
    [][\A p \in Procs :
          (/\ calls[p].pc \in InFlight
           /\ calls[p].req.upload_id \in DOMAIN db
           /\ LET u == db[calls[p].req.upload_id]
                  k == list_index(Len(u.chunks), calls[p].req.chunk_number - 1)
              IN u.chunks[k].is_uploaded /\ u.chunks[k].etag = Some(calls[p].req.etag))
          => LET id == calls[p].req.upload_id
             IN /\ Flags(db'[id]) = Flags(db[id])
                /\ db'[id].upload_progress = db[id].upload_progress]_vars

\* the repeated call has read the item its twin left and is about to write it back
C8_Witness ==
    \E p \in Procs :
        /\ calls[p].pc = "update"
        /\ calls[p].req.upload_id \in DOMAIN db
        /\ LET u == db[calls[p].req.upload_id]
               k == list_index(Len(u.chunks), calls[p].req.chunk_number - 1)
           IN /\ u.chunks[k].is_uploaded /\ u.chunks[k].etag = Some(calls[p].req.etag)
              /\ u.upload_progress = 5000
              /\ Flags(calls[p].upload[1]) = Flags(u)

\* C9: a chunk's etag is set when the chunk becomes uploaded and never changes
\* afterwards, whatever etag a later mark_complete for that chunk carries
C9_PartTagSetOnce ==
    [][\A id \in DOMAIN db : \A k \in DOMAIN db[id].chunks :
          /\ db[id].chunks[k].is_uploaded => db'[id].chunks[k].etag = db[id].chunks[k].etag
          /\ (~db[id].chunks[k].is_uploaded /\ db'[id].chunks[k].is_uploaded)
                => db'[id].chunks[k].etag # None]_vars

\* C10: presign and mark_complete answer a caller who does not own the upload
\* exactly as they answer for an id that has no item: status failed, progress 0,
\* "Upload not found", no URL, no next chunk
C10_NotFoundShape(upload_id) ==
    [upload_id |-> upload_id, status |-> "failed", progress |-> 0,
     message |-> <<"Upload not found">>, upload_url |-> None, next_chunk |-> None]

C10_OwnershipIsolation ==
    (returned # None /\ returned[1].op \in {"presign", "mark_complete"})
    => LET r == returned[1]
           id == r.req.upload_id
       IN (id \notin DOMAIN db \/ db[id].user_id # r.user_id)
          => ~r.raised /\ r.resp = Some(C10_NotFoundShape(id))

C10_Witness ==
    /\ returned # None /\ returned[1].op = "mark_complete"
    /\ returned[1].req.upload_id \in DOMAIN db
    /\ db[returned[1].req.upload_id].user_id # returned[1].user_id
    /\ db[returned[1].req.upload_id].status = "completed"

\* C11: a presign or mark_complete by a caller who is not the owner of the
\* stored upload changes neither the stored item nor the bucket, starts no
\* write, and calls neither presign nor complete on S3
C11_OnlyOwnerMutates ==
    [][(/\ returned' # None
        /\ returned'[1].op \in {"presign", "mark_complete"}
        /\ returned'[1].req.upload_id \in DOMAIN db
        /\ db[returned'[1].req.upload_id].user_id # returned'[1].user_id)
       => db' = db /\ s3' = s3 /\ calls' = calls /\ s3_call' = None]_vars

C11_Witness ==
    /\ returned # None /\ returned[1].op = "presign"
    /\ returned[1].req.upload_id \in DOMAIN db
    /\ db[returned[1].req.upload_id].user_id # returned[1].user_id
    /\ db[returned[1].req.upload_id].status = "uploading"
    /\ returned[1].req.chunk_number \in DOMAIN db[returned[1].req.upload_id].chunks
    /\ ~db[returned[1].req.upload_id].chunks[returned[1].req.chunk_number].is_uploaded
    /\ s3_call = None

\* C12: presign and mark_complete by the owner of a stored upload with a
\* chunk_number outside 1..len(chunks) answer with the typed invalid-chunk
\* failure (or with not found when the read failed): no exception, no success
C12_InvalidChunkTyped ==
    (/\ returned # None
     /\ returned[1].op \in {"presign", "mark_complete"}
     /\ returned[1].req.upload_id \in DOMAIN db
     /\ db[returned[1].req.upload_id].user_id = returned[1].user_id
     /\ returned[1].req.chunk_number \notin 1..Len(db[returned[1].req.upload_id].chunks))
    => /\ ~returned[1].raised
       /\ returned[1].resp[1].status = "failed"
       /\ returned[1].resp[1].message \in {<<"Invalid chunk">>, <<"Upload not found">>}

\* C13: the parts handed to complete_multipart_upload are one pair per chunk of
\* the upload, in ascending chunk_number order, each with the chunk's etag
C13_FinalizeGetsEveryPart ==
    \A p \in Procs :
        (/\ s3_call # None /\ s3_call[1].op = "complete_multipart_upload"
         /\ calls[p].pc = "update_final")
        => LET chunks == calls[p].upload[1].chunks
               parts == s3_call[1].parts
           IN /\ Len(parts) = Len(chunks)
              /\ \A k \in 1..Len(parts) :
                    parts[k].PartNumber = k /\ Some(parts[k].ETag) = chunks[k].etag

\* C14: between the two writes of a mark_complete (finalize about to be called
\* or just answered) the stored item is uploading with progress 100.0 and every
\* chunk uploaded: the first write went through before finalize
C14_FinalizeAfterDurableWrite ==
    \A p \in Procs :
        calls[p].pc \in {"finalize", "update_final"}
        => /\ calls[p].req.upload_id \in DOMAIN db
           /\ LET u == db[calls[p].req.upload_id]
              IN u.status = "uploading" /\ u.upload_progress = 10000 /\ AllFlags(u)

\* C15: a mark_complete whose finalize succeeded answers completed with progress
\* 100.0, and the item its second write stores is completed with completed_at
\* set and progress 100.0
C15_FinalizeSuccessCompletes ==
    [][\A p \in Procs :
          (/\ calls[p].pc = "update_final"
           /\ calls[p].upload[1].status = "completed"
           /\ calls'[p].pc # "update_final")
          => /\ returned' # None /\ ~returned'[1].raised
             /\ returned'[1].resp[1].status = "completed"
             /\ returned'[1].resp[1].progress = 10000
             /\ returned'[1].wrote
                => LET u == db'[calls[p].req.upload_id]
                   IN /\ u.status = "completed" /\ u.completed_at # None
                      /\ u.upload_progress = 10000 /\ AllFlags(u)]_vars

\* chunk 2 of 2 completed, finalize succeeded
C15_Witness ==
    /\ returned # None /\ returned[1].op = "mark_complete" /\ returned[1].wrote
    /\ returned[1].req.chunk_number = 2
    /\ returned[1].resp # None /\ returned[1].resp[1].status = "completed"
    /\ Len(db[returned[1].req.upload_id].chunks) = 2
    /\ db[returned[1].req.upload_id].status = "completed"

\* C16: a failing finalize leaves the progress the call holds as it was, and the
\* call then answers failed with that progress and stores failed
C16_FinalizeFailureFails ==
    [][\A p \in Procs :
          /\ (/\ calls[p].pc = "finalize"
              /\ calls'[p].pc = "update_final"
              /\ calls'[p].upload[1].status = "failed")
             => calls'[p].upload[1].upload_progress = calls[p].upload[1].upload_progress
          /\ (/\ calls[p].pc = "update_final"
              /\ calls[p].upload[1].status = "failed"
              /\ calls'[p].pc # "update_final")
             => /\ returned' # None /\ ~returned'[1].raised
                /\ returned'[1].resp[1].status = "failed"
                /\ returned'[1].resp[1].progress = calls[p].upload[1].upload_progress
                /\ returned'[1].wrote
                   => LET u == db'[calls[p].req.upload_id]
                      IN /\ u.status = "failed"
                         /\ u.upload_progress = returned'[1].resp[1].progress]_vars

C16_Witness ==
    /\ returned # None /\ returned[1].op = "mark_complete" /\ returned[1].wrote
    /\ returned[1].resp # None /\ returned[1].resp[1].status = "failed"
    /\ returned[1].resp[1].message = <<"S3 finalize failed">>
    /\ db[returned[1].req.upload_id].status = "failed"
    /\ db[returned[1].req.upload_id].upload_progress = 10000

\* C17: every chunk the stored item shows uploaded is a part the bucket's
\* session holds, under the etag S3 gave it
C17_RecordMatchesObjectStore ==
    \A id \in DOMAIN db : \A k \in DOMAIN db[id].chunks :
        db[id].chunks[k].is_uploaded
        => /\ id \in DOMAIN s3
           /\ db[id].chunks[k].chunk_number \in s3[id].parts
           /\ db[id].chunks[k].etag = Some(part_etag(db[id].chunks[k].chunk_number))

\* C18: once one fault-free mark_complete per chunk has returned, the stored
\* status is completed or failed (some call went on to finalize)
C18_AllAcknowledgedEndsTerminal ==
    \A id \in DOMAIN db :
        (/\ \A p \in Procs : calls[p].pc = "done"
         /\ Len(db[id].chunks) = MaxCalls)
        => db[id].status \in {"completed", "failed"}

\* C19: initiate with a file_size over the cap answers failed, opens no
\* multipart session and stores no item
C19_TooLargeCreatesNothing ==
    [][(/\ returned' # None
        /\ returned'[1].op = "initiate"
        /\ returned'[1].req.file_size > max_file_size)
       => /\ ~returned'[1].raised
          /\ returned'[1].resp[1].status = "failed"
          /\ db' = db /\ s3' = s3 /\ s3_call' = None]_vars

C19_Witness ==
    /\ returned # None /\ returned[1].op = "initiate"
    /\ returned[1].req.file_size > max_file_size
    /\ returned[1].resp[1].status = "failed"
    /\ db # <<>> /\ s3_call = None

\* C20: when create_multipart_upload fails, initiate answers failed and the
\* table is left as it was
C20_SessionFailurePersistsNothing ==
    [][(/\ s3_call' # None
        /\ s3_call'[1].op = "create_multipart_upload"
        /\ ~s3_call'[1].ok)
       => /\ returned' # None /\ ~returned'[1].raised
          /\ returned'[1].resp[1].status = "failed"
          /\ db' = db /\ s3' = s3]_vars

C20_Witness ==
    /\ s3_call # None /\ s3_call[1].op = "create_multipart_upload" /\ ~s3_call[1].ok
    /\ returned # None /\ returned[1].op = "initiate"
    /\ returned[1].resp[1].status = "failed"
    /\ db = <<>>

\* the lowest chunk number still open in a chunk list, None when none is
LowestOpen(chunks) ==
    IF \A k \in DOMAIN chunks : chunks[k].is_uploaded THEN None
    ELSE Some(CHOOSE n \in 1..Len(chunks) :
                /\ ~chunks[n].is_uploaded
                /\ \A m \in 1..(n - 1) : chunks[m].is_uploaded)

\* presign or mark_complete answered "Upload not found"
AnsweredNotFound(r) == r.resp # None /\ r.resp[1].message = <<"Upload not found">>

\* C21: an initiate whose session was opened and whose item was stored adds
\* exactly one session and exactly one item (uploading, progress 0, no chunk
\* uploaded, no etag, owned by the caller) and returns that item's id with
\* status uploading, progress 0 and next_chunk 1
C21_InitiateCreatesOneUpload ==
    [][(/\ returned' # None
        /\ returned'[1].op = "initiate"
        /\ returned'[1].wrote
        /\ returned'[1].resp[1].status = "uploading")
       => LET r == returned'[1].resp[1]
              id == r.upload_id
          IN /\ id \notin DOMAIN db /\ id \notin DOMAIN s3
             /\ DOMAIN db' = DOMAIN db \cup {id}
             /\ \A j \in DOMAIN db : db'[j] = db[j]
             /\ DOMAIN s3' = DOMAIN s3 \cup {id}
             /\ \A j \in DOMAIN s3 : s3'[j] = s3[j]
             /\ s3_call' # None /\ s3_call'[1].op = "create_multipart_upload"
             /\ s3_call'[1].ok
             /\ db'[id].id = id
             /\ db'[id].user_id = returned'[1].user_id
             /\ db'[id].file_size = returned'[1].req.file_size
             /\ db'[id].status = "uploading" /\ db'[id].upload_progress = 0
             /\ db'[id].completed_at = None
             /\ Len(db'[id].chunks) >= 1
             /\ \A k \in DOMAIN db'[id].chunks :
                    ~db'[id].chunks[k].is_uploaded /\ db'[id].chunks[k].etag = None
             /\ r.progress = 0 /\ r.next_chunk = Some(1) /\ r.upload_url = None]_vars

\* a second upload created beside the first
C21_Witness ==
    /\ returned # None /\ returned[1].op = "initiate" /\ returned[1].wrote
    /\ returned[1].resp[1].status = "uploading"
    /\ returned[1].resp[1].upload_id \in DOMAIN db
    /\ Cardinality(DOMAIN db) = 2

\* C22: every id initiate returns with status uploading has a stored item
C22_ReturnedIdIsStored ==
    (/\ returned # None
     /\ returned[1].op = "initiate"
     /\ returned[1].resp[1].status = "uploading")
    => returned[1].resp[1].upload_id \in DOMAIN db

\* C23: a mark_complete that answers "Chunk n saved" with progress p has the
\* chunk stored as uploaded with that progress, and one that answers "Upload
\* completed" has the item stored as completed
C23_SavedMeansPersisted ==
    (/\ returned # None
     /\ returned[1].op = "mark_complete"
     /\ ~returned[1].raised
     /\ ~AnsweredNotFound(returned[1]))
    => LET r == returned[1]
           u == db[r.req.upload_id]
           k == list_index(Len(u.chunks), r.req.chunk_number - 1)
       IN /\ r.resp[1].message[1] = "Chunk"
             => u.chunks[k].is_uploaded /\ u.upload_progress = r.resp[1].progress
          /\ r.resp[1].message = <<"Upload completed">> => u.status = "completed"
          /\ r.resp[1].message = <<"S3 finalize failed">> => u.status = "failed"

\* C24: a presign leaves the table as it was, whatever it answers
C24_PresignReadOnly ==
    [][(returned' # None /\ returned'[1].op = "presign") => db' = db]_vars

\* the S3 failure outcome, on an upload half way
C24_Witness ==
    /\ returned # None /\ returned[1].op = "presign" /\ ~returned[1].raised
    /\ returned[1].resp[1].message = <<"URL generated">>
    /\ returned[1].resp[1].upload_url = None
    /\ db[returned[1].req.upload_id].upload_progress = 5000

\* C25: presign by the owner for a chunk the item shows uploaded signs no URL,
\* makes no S3 call, and answers the stored status and progress with the lowest
\* open chunk number (None when none is open); the same call made again
\* answers the same
C25_AlreadyUploadedShortCircuit ==
    [][/\ (/\ returned' # None
           /\ returned'[1].op = "presign"
           /\ ~AnsweredNotFound(returned'[1])
           /\ returned'[1].req.upload_id \in DOMAIN db
           /\ db[returned'[1].req.upload_id].user_id = returned'[1].user_id
           /\ returned'[1].req.chunk_number \in DOMAIN db[returned'[1].req.upload_id].chunks
           /\ db[returned'[1].req.upload_id].chunks[returned'[1].req.chunk_number].is_uploaded)
          => LET u == db[returned'[1].req.upload_id]
                 r == returned'[1].resp[1]
             IN /\ ~returned'[1].raised
                /\ r.upload_url = None /\ s3_call' = None
                /\ r.status = u.status /\ r.progress = u.upload_progress
                /\ r.next_chunk = LowestOpen(u.chunks)
                /\ db' = db
       /\ (/\ returned # None /\ returned' # None
           /\ returned[1].op = "presign" /\ returned'[1].op = "presign"
           /\ returned[1].resp # None
           /\ returned[1].resp[1].message = <<"Chunk already uploaded">>
           /\ returned'[1].req = returned[1].req
           /\ returned'[1].user_id = returned[1].user_id
           /\ ~AnsweredNotFound(returned'[1]))
          => returned'[1].resp = returned[1].resp]_vars

C25_Witness ==
    /\ returned # None /\ returned[1].op = "presign" /\ ~returned[1].raised
    /\ returned[1].req.chunk_number = 1
    /\ returned[1].resp[1].message = <<"Chunk already uploaded">>
    /\ returned[1].resp[1].next_chunk = Some(2)
    /\ returned[1].resp[1].progress = 5000

\* C26: a presign that answers "URL generated" carries a URL
C26_UrlGeneratedHasUrl ==
    (/\ returned # None
     /\ returned[1].op = "presign"
     /\ ~returned[1].raised
     /\ returned[1].resp[1].message = <<"URL generated">>)
    => returned[1].resp[1].upload_url # None

\* C27: presign by the owner for a chunk of the plan that is not uploaded asks
\* S3 for a URL for that part number under the item's key and UploadId, and
\* answers that URL with next_chunk the requested number and the stored status
\* and progress
C27_UrlScopedToChunk ==
    (/\ returned # None
     /\ returned[1].op = "presign"
     /\ ~AnsweredNotFound(returned[1])
     /\ returned[1].req.upload_id \in DOMAIN db
     /\ db[returned[1].req.upload_id].user_id = returned[1].user_id
     /\ returned[1].req.chunk_number \in DOMAIN db[returned[1].req.upload_id].chunks
     /\ ~db[returned[1].req.upload_id].chunks[returned[1].req.chunk_number].is_uploaded)
    => LET u == db[returned[1].req.upload_id]
           n == returned[1].req.chunk_number
           r == returned[1].resp[1]
       IN /\ ~returned[1].raised
          /\ s3_call # None
          /\ s3_call[1].op = "generate_presigned_url"
          /\ s3_call[1].key = u.s3_key /\ s3_call[1].upload_id = u.upload_id
          /\ s3_call[1].parts = <<n>>
          /\ s3_call[1].ok => r.upload_url = Some(<<u.s3_key, u.upload_id, n>>)
          /\ r.next_chunk = Some(n)
          /\ r.status = u.status /\ r.progress = u.upload_progress

\* the URL for chunk 2 of 2 once chunk 1 is in
C27_Witness ==
    /\ returned # None /\ returned[1].op = "presign" /\ ~returned[1].raised
    /\ returned[1].req.chunk_number = 2
    /\ returned[1].resp[1].upload_url # None
    /\ db[returned[1].req.upload_id].upload_progress = 5000
    /\ s3_call # None /\ s3_call[1].ok

C29_ChunkCoverage ==
    \A id \in DOMAIN db :
        LET chunks == db[id].chunks
            n == Len(chunks)
        IN /\ n >= 1
           /\ chunks[1].start_byte = 0
           /\ \A k \in 2..n : chunks[k].start_byte = chunks[k - 1].end_byte + 1
           /\ \A k \in 1..n : chunks[k].start_byte <= chunks[k].end_byte
           /\ chunks[n].end_byte = db[id].file_size - 1

\* file_size a multiple of chunk_size: two full chunks, no empty third
C29_Witness ==
    \E id \in DOMAIN db :
        /\ db[id].file_size = 4 /\ Len(db[id].chunks) = 2
        /\ db[id].chunks[2].start_byte = 2 /\ db[id].chunks[2].end_byte = 3

\* C30: the plan initiate stores has ceil(file_size / chunk_size) chunks, the
\* chunk at position i (from 0) is numbered i + 1 and spans i * chunk_size to
\* min(file_size - 1, (i + 1) * chunk_size - 1), and the same inputs planned
\* again give the same plan
C30_PlanShape ==
    [][(/\ returned' # None
        /\ returned'[1].op = "initiate"
        /\ returned'[1].wrote
        /\ returned'[1].resp[1].status = "uploading")
       => LET size == returned'[1].req.file_size
              chunk == returned'[1].req.chunk_size
              chunks == db'[returned'[1].resp[1].upload_id].chunks
              n == Len(chunks)
          IN /\ (n - 1) * chunk < size /\ size <= n * chunk
             /\ \A k \in 1..n :
                    /\ chunks[k].chunk_number = k
                    /\ chunks[k].start_byte = (k - 1) * chunk
                    /\ chunks[k].end_byte =
                          (IF size - 1 <= k * chunk - 1 THEN size - 1 ELSE k * chunk - 1)
             /\ (/\ returned # None
                 /\ returned[1].op = "initiate"
                 /\ returned[1].wrote
                 /\ returned[1].resp[1].status = "uploading"
                 /\ returned[1].req = returned'[1].req)
                => chunks = db[returned[1].resp[1].upload_id].chunks]_vars

\* 5 blocks in chunks of 2: three chunks, the last one short
C30_Witness ==
    /\ returned # None /\ returned[1].op = "initiate" /\ returned[1].wrote
    /\ returned[1].req.file_size = 5 /\ returned[1].req.chunk_size = 2
    /\ returned[1].resp[1].upload_id \in DOMAIN db
    /\ Len(db[returned[1].resp[1].upload_id].chunks) = 3
    /\ db[returned[1].resp[1].upload_id].chunks[3].end_byte = 4

\* C31: no step changes what initiate fixed in a stored item: id, owner,
\* filename, file_size, content_type, S3 UploadId and key, the number of chunks,
\* and every chunk's number and byte range
C31_CreationAttributesKept ==
    [][\A id \in DOMAIN db :
          /\ id \in DOMAIN db'
          /\ db'[id].id = db[id].id
          /\ db'[id].user_id = db[id].user_id
          /\ db'[id].filename = db[id].filename
          /\ db'[id].file_size = db[id].file_size
          /\ db'[id].content_type = db[id].content_type
          /\ db'[id].upload_id = db[id].upload_id
          /\ db'[id].s3_key = db[id].s3_key
          /\ Len(db'[id].chunks) = Len(db[id].chunks)
          /\ \A k \in DOMAIN db[id].chunks :
                /\ db'[id].chunks[k].chunk_number = db[id].chunks[k].chunk_number
                /\ db'[id].chunks[k].start_byte = db[id].chunks[k].start_byte
                /\ db'[id].chunks[k].end_byte = db[id].chunks[k].end_byte]_vars

\* a two-chunk upload taken to the end by interleaved calls
C31_Witness ==
    \E id \in DOMAIN db :
        /\ db[id].status = "failed" /\ Len(db[id].chunks) = 2
        /\ db[id].chunks[2].start_byte = 2 /\ db[id].chunks[2].end_byte = 2
        /\ db[id].s3_key = <<"uploads", "alice", id, "a.mp4">>

\* C32: a step changes a stored item only when it is a write of a call
\* addressed to that item; a call holds the item it was addressed to and no
\* other; no step changes another upload's session
C32_UploadsDoNotInterfere ==
    [][/\ \A j \in DOMAIN db :
            db'[j] # db[j]
            => \E p \in Procs :
                  /\ calls[p].pc \in InFlight
                  /\ calls[p].req.upload_id = j
                  /\ calls'[p] # calls[p]
                  /\ db'[j] = calls[p].upload[1]
       /\ \A j \in DOMAIN s3 : s3'[j] = s3[j]
       /\ \A p \in Procs :
            calls'[p].pc \in InFlight
            => calls'[p].upload[1].id = calls'[p].req.upload_id]_vars

\* upload 1 completed while upload 2 has a call in flight and is untouched
C32_Witness ==
    /\ DOMAIN db = {1, 2}
    /\ db[1].status = "completed"
    /\ db[2].status = "uploading" /\ db[2].upload_progress = 0
    /\ \E p \in Procs : calls[p].pc = "update" /\ calls[p].req.upload_id = 2

\* the count the rate limit holds for a client key
CountOf(cache, key) == IF key \in DOMAIN cache THEN cache[key] ELSE 0
ClientKeys == {"unknown", "10.0.0.1"}
FromKey(r, key) == r # None /\ r[1].op = "guards" /\ (IF r[1].client = <<>> THEN "unknown" ELSE r[1].client[1]) = key

\* C33: a request that reaches the rate limit from key k is admitted when k's
\* count is below the limit, and the count goes up by one; at the limit it is
\* rejected with 429 "Rate limit exceeded" and the count stays; the count of
\* every other key stays
C33_RateLimitCounts ==
    [][\A k \in ClientKeys :
          IF FromKey(returned', k) /\ returned'[1].bearer
          THEN IF CountOf(requests_cache, k) < requests_per_minute
               THEN /\ returned'[1].handled /\ returned'[1].status_code = 200
                    /\ CountOf(requests_cache', k) = CountOf(requests_cache, k) + 1
               ELSE /\ ~returned'[1].handled /\ returned'[1].status_code = 429
                    /\ returned'[1].detail = <<"Rate limit exceeded">>
                    /\ CountOf(requests_cache', k) = CountOf(requests_cache, k)
          ELSE CountOf(requests_cache', k) = CountOf(requests_cache, k)]_vars

\* request 101 of one client rejected while another client stands at 1
C33_Witness ==
    /\ FromKey(returned, "10.0.0.1") /\ returned[1].status_code = 429
    /\ CountOf(requests_cache, "10.0.0.1") = requests_per_minute
    /\ CountOf(requests_cache, "unknown") = 1

\* C34: a mark_complete by the owner with a chunk_number outside
\* 1..len(chunks) writes nothing and calls no finalize
C34_OutOfRangeChangesNothing ==
    [][\A p \in Procs :
          (/\ calls[p].pc \in InFlight
           /\ calls[p].req.upload_id \in DOMAIN db
           /\ calls[p].req.chunk_number \notin 1..Len(db[calls[p].req.upload_id].chunks))
          => db' = db /\ s3_call' = None]_vars

\* C35: the guards run in list order and stop at the first denial: without a
\* Bearer header AuthGuard denies with 403 and the rate limit count is not
\* touched; with one, the rate limit decides; the handler runs exactly when
\* both admitted
C35_GuardsInOrder ==
    [][(returned' # None /\ returned'[1].op = "guards")
       => LET r == returned'[1]
              k == IF r.client = <<>> THEN "unknown" ELSE r.client[1]
              below == CountOf(requests_cache, k) < requests_per_minute
          IN /\ r.handled <=> (r.bearer /\ below)
             /\ r.handled <=> r.denied_by = None
             /\ ~r.bearer => /\ r.denied_by = Some("AuthGuard")
                             /\ r.status_code = 403
                             /\ requests_cache' = requests_cache
             /\ (r.bearer /\ ~below) => /\ r.denied_by = Some("RateLimitGuard")
                                        /\ r.status_code = 429]_vars

\* a request without a Bearer header from a client that has been counted
C35_Witness ==
    /\ FromKey(returned, "10.0.0.1") /\ ~returned[1].bearer
    /\ returned[1].status_code = 403
    /\ CountOf(requests_cache, "10.0.0.1") = 2

\* C36: complete_multipart_upload is not called for a session whose stored item
\* already carries the verdict of an earlier call (completed or failed)
C36_FinalizeAtMostOnce ==
    [][(s3_call' # None /\ s3_call'[1].op = "complete_multipart_upload")
       => \A id \in DOMAIN db :
             db[id].upload_id = s3_call'[1].upload_id => db[id].status = "uploading"]_vars

\* C37: the stored progress is the rounded share of the stored flags: within
\* half a hundredth of uploaded / total * 100, 0 exactly when no chunk is
\* uploaded and 100.0 exactly when all are
C37_ProgressMatchesFlags ==
    \A id \in DOMAIN db :
        LET n == Len(db[id].chunks)
            up == Cardinality({k \in 1..n : db[id].chunks[k].is_uploaded})
            d == db[id].upload_progress * n - up * 10000
        IN /\ 2 * d <= n /\ -2 * d <= n
           /\ db[id].upload_progress = 0 <=> up = 0
           /\ db[id].upload_progress = 10000 <=> up = n

\* chunk 2 stored before chunk 1
C37_Witness ==
    \E id \in DOMAIN db :
        /\ Len(db[id].chunks) = 2 /\ db[id].upload_progress = 5000
        /\ db[id].chunks[2].is_uploaded /\ ~db[id].chunks[1].is_uploaded

\* C38: a stored item that is completed or failed has every chunk uploaded, and
\* no stored item is pending
C38_TerminalMeansAllUploaded ==
    \A id \in DOMAIN db :
        /\ db[id].status \in {"completed", "failed"} => AllFlags(db[id])
        /\ db[id].status # "pending"

C38_Witness ==
    \E id \in DOMAIN db :
        /\ db[id].status = "failed" /\ Len(db[id].chunks) = 2 /\ AllFlags(db[id])
        /\ \E p \in Procs : calls[p].pc = "update" /\ ~AllFlags(calls[p].upload[1])

====
